---- MODULE Spec2Model ----
(***************************************************************************)
(* Model of pipelinex/decorators/decorators.py: the dict_io row/column     *)
(* adapter, the log_time timing decorator and _human_readable_time.        *)
(*                                                                         *)
(* Python values are tagged records  [tag, n, items]:                      *)
(*   int n        -> [tag |-> "int",   n |-> n, items |-> <<>>]            *)
(*   None         -> [tag |-> "none",  n |-> 0, items |-> <<>>]            *)
(*   tuple (..)   -> [tag |-> "tuple", n |-> 0, items |-> <<v1, ..>>]      *)
(*   list  [..]   -> [tag |-> "list",  n |-> 0, items |-> <<v1, ..>>]      *)
(* A dict is the sequence of its items [key, val] in insertion order, with *)
(* pairwise distinct keys.                                                 *)
(***************************************************************************)
EXTENDS Integers, Sequences, FiniteSets, TLC

VARIABLES
    func,       \* dict_io: name of the wrapped callable
    args,       \* dict_io: positional arguments of the call of _dict_io, a sequence of dicts
    pc,         \* dict_io: position of the call inside _dict_io
    keys,       \* dict_io: args[0].keys(), as a sequence
    idx,        \* dict_io: position of the for loop in keys
    key,        \* dict_io: the loop variable (Unbound before the first iteration)
    out,        \* dict_io: the local variable out
    out_dict,   \* dict_io: the local variable out_dict
    events,     \* dict_io: invocations of func and log records, in order
    outcome,    \* dict_io: how the call of _dict_io ended
    lt_pc,      \* log_time: position of the call inside with_time
    lt_func,    \* log_time: what the wrapped callable does when called
    t_start,    \* log_time: first clock reading, in milliseconds
    t_end,      \* log_time: second clock reading, in milliseconds
    lt_result,  \* log_time: the local variable result
    lt_log,     \* log_time: log records emitted by with_time, in order
    lt_outcome  \* log_time: how the call of with_time ended

dvars == <<func, args, pc, keys, idx, key, out, out_dict, events, outcome>>
tvars == <<lt_pc, lt_func, t_start, t_end, lt_result, lt_log, lt_outcome>>
vars == <<func, args, pc, keys, idx, key, out, out_dict, events, outcome,
          lt_pc, lt_func, t_start, t_end, lt_result, lt_log, lt_outcome>>

(***************************************************************************)
(* Bounds                                                                  *)
(***************************************************************************)
MaxVal == 2
MaxArgs == 2

KeyOrder == <<"a", "b", "c">>
Keys == {KeyOrder[i] : i \in 1..Len(KeyOrder)}

(***************************************************************************)
(* Python values                                                           *)
(***************************************************************************)
IntV(n) == [tag |-> "int", n |-> n, items |-> <<>>]
NoneV == [tag |-> "none", n |-> 0, items |-> <<>>]
TupleV(s) == [tag |-> "tuple", n |-> 0, items |-> s]
ListV(s) == [tag |-> "list", n |-> 0, items |-> s]

IsTuple(v) == v.tag = "tuple"
IsIterable(v) == v.tag \in {"tuple", "list"}

Min(a, b) == IF a <= b THEN a ELSE b

RECURSIVE JoinStr(_)
JoinStr(s) ==
    IF Len(s) = 0 THEN ""
    ELSE IF Len(s) = 1 THEN s[1]
    ELSE s[1] \o ", " \o JoinStr(Tail(s))

\* str(v), as "{}".format(v) renders it
RECURSIVE Str(_)
Str(v) ==
    CASE v.tag = "int" -> ToString(v.n)
      [] v.tag = "none" -> "None"
      [] v.tag = "tuple" ->
            IF Len(v.items) = 1 THEN "(" \o Str(v.items[1]) \o ",)"
            ELSE "(" \o JoinStr([i \in 1..Len(v.items) |-> Str(v.items[i])]) \o ")"
      [] v.tag = "list" ->
            "[" \o JoinStr([i \in 1..Len(v.items) |-> Str(v.items[i])]) \o "]"

(***************************************************************************)
(* dict operations                                                         *)
(***************************************************************************)
DictKeys(d) == [i \in 1..Len(d) |-> d[i].key]
DictValues(d) == [i \in 1..Len(d) |-> d[i].val]
HasKey(d, k) == \E i \in 1..Len(d) : d[i].key = k

\* d.get(k, 0): a default of 0 in place of None
DictGetZero(d, k) ==
    IF HasKey(d, k) THEN d[CHOOSE i \in 1..Len(d) : d[i].key = k].val ELSE IntV(0)

\* d.get(k): the value at k, None when k is absent
DictGet(d, k) ==
    IF HasKey(d, k) THEN d[CHOOSE i \in 1..Len(d) : d[i].key = k].val ELSE NoneV

\* d[k] = v with a new key inserted at the front
DictSetFront(d, k, v) ==
    IF HasKey(d, k)
    THEN [i \in 1..Len(d) |-> IF d[i].key = k THEN [key |-> k, val |-> v] ELSE d[i]]
    ELSE <<[key |-> k, val |-> v]>> \o d

\* d[k] = v: replaces in place, or inserts at the end
DictSet(d, k, v) ==
    IF HasKey(d, k)
    THEN [i \in 1..Len(d) |-> IF d[i].key = k THEN [key |-> k, val |-> v] ELSE d[i]]
    ELSE Append(d, [key |-> k, val |-> v])

\* zip(s, t)
Zip(s, t) == [i \in 1..Min(Len(s), Len(t)) |-> <<s[i], t[i]>>]

\* dict(pairs)
RECURSIVE DictOf(_)
DictOf(pairs) ==
    IF Len(pairs) = 0 THEN <<>>
    ELSE LET n == Len(pairs)
         IN DictSet(DictOf(SubSeq(pairs, 1, n - 1)), pairs[n][1], pairs[n][2])

IsDict(d) == \A i, j \in 1..Len(d) : d[i].key = d[j].key => i = j

(***************************************************************************)
(* The wrapped callables.  A call ends with a value or with an error.      *)
(***************************************************************************)
Returned(v) == [raised |-> FALSE, err |-> "", val |-> v]
Raised(e) == [raised |-> TRUE, err |-> e, val |-> NoneV]

ArityError == "TypeError: wrong number of positional arguments"
OperandError == "TypeError: unsupported operand type(s): 'NoneType'"
ValueError == "ValueError: even input"
NotIterableError == "TypeError: zip argument must support iteration"
UnboundError == "UnboundLocalError: local variable 'key' referenced before assignment"
IndexError == "IndexError: tuple index out of range"

Funcs == {"double", "pair", "add", "missing", "shape", "listy", "ragged", "fail"}

RECURSIVE SumInts(_)
SumInts(a) == IF Len(a) = 0 THEN 0 ELSE a[1].n + SumInts(Tail(a))

Repeat(v, n) == [i \in 1..n |-> v]

\* func applied to the positional arguments a
Apply(f, a) ==
    CASE f = "double" ->        \* lambda x: x * 2
            IF Len(a) # 1 THEN Raised(ArityError)
            ELSE IF a[1].tag # "int" THEN Raised(OperandError)
            ELSE Returned(IntV(a[1].n * 2))
      [] f = "pair" ->          \* lambda x: (x, x * 2)
            IF Len(a) # 1 THEN Raised(ArityError)
            ELSE IF a[1].tag # "int" THEN Raised(OperandError)
            ELSE Returned(TupleV(<<a[1], IntV(a[1].n * 2)>>))
      [] f = "add" ->           \* lambda x, y: x + y
            IF Len(a) # 2 THEN Raised(ArityError)
            ELSE IF \E i \in 1..2 : a[i].tag # "int" THEN Raised(OperandError)
            ELSE Returned(IntV(SumInts(a)))
      [] f = "missing" ->       \* lambda *a: sum(1 for x in a if x is None)
            Returned(IntV(Cardinality({i \in 1..Len(a) : a[i].tag = "none"})))
      [] f = "shape" ->         \* lambda x, *r: (x, x) if x % 2 == 0 else x
            IF a[1].n % 2 = 0 THEN Returned(TupleV(<<a[1], a[1]>>))
            ELSE Returned(a[1])
      [] f = "listy" ->         \* lambda x, *r: (x, x) if x % 2 == 0 else [x]
            IF a[1].n % 2 = 0 THEN Returned(TupleV(<<a[1], a[1]>>))
            ELSE Returned(ListV(<<a[1]>>))
      [] f = "ragged" ->        \* lambda x, *r: (x,) * (x - 1)
            Returned(TupleV(Repeat(a[1], a[1].n - 1)))
      [] f = "fail" ->          \* lambda x, *r: x, raising ValueError on even x
            IF a[1].n % 2 = 0 THEN Raised(ValueError)
            ELSE Returned(a[1])

(***************************************************************************)
(* dict_of_list_to_list_of_dict                                            *)
(***************************************************************************)
RECURSIVE MinLen(_)
MinLen(vals) ==
    IF Len(vals) = 1 THEN Len(vals[1].items)
    ELSE Min(Len(vals[1].items), MinLen(Tail(vals)))

\* zip over the unpacked vals: raises when an argument is not iterable, stops at the shortest
ZipStar(vals) ==
    IF \E i \in 1..Len(vals) : ~IsIterable(vals[i]) THEN Raised(NotIterableError)
    ELSE IF Len(vals) = 0 THEN Returned(<<>>)
    ELSE Returned([i \in 1..MinLen(vals) |-> [j \in 1..Len(vals) |-> vals[j].items[i]]])

\* one dict per key, zipping the keys with that key's values, without the transpose
dict_per_key(dict_of_list) ==
    Returned([j \in 1..Len(dict_of_list) |->
                 DictOf(Zip(DictKeys(dict_of_list), dict_of_list[j].val.items))])

dict_of_list_to_list_of_dict(dict_of_list) ==
    LET z == ZipStar(DictValues(dict_of_list))
    IN IF z.raised THEN z
       ELSE Returned([i \in 1..Len(z.val) |->
                         DictOf(Zip(DictKeys(dict_of_list), z.val[i]))])

(***************************************************************************)
(* One call of _dict_io                                                        *)
(***************************************************************************)
Unbound == "<unbound>"
Pending == [kind |-> "pending", err |-> "", value |-> <<>>]

\* "{}: {}".format(out, key)
LogEventSwapped(k, v) == [ev |-> "log", key |-> k, a |-> <<>>, msg |-> Str(v) \o ": " \o k]

CallEvent(k, a) == [ev |-> "call", key |-> k, a |-> a, msg |-> ""]
LogEvent(k, v) == [ev |-> "log", key |-> k, a |-> <<>>, msg |-> k \o ": " \o Str(v)]

Vals == {IntV(n) : n \in 1..MaxVal}

\* every dict over Keys with values in Vals, in every insertion order
Dicts ==
    UNION {{d \in [1..n -> [key : Keys, val : Vals]] : IsDict(d)} : n \in 0..Len(KeyOrder)}

\* position of a key in KeyOrder
Rank(k) == CHOOSE i \in 1..Len(KeyOrder) : KeyOrder[i] = k

\* the arguments after the first are only read with get, so their insertion
\* order is never observed: they are taken in the order of KeyOrder, over
\* every subset of Keys, with the value Min(Rank(key), MaxVal) at each key
LaterDicts ==
    {d \in Dicts :
        /\ \A i, j \in 1..Len(d) : i < j => Rank(d[i].key) < Rank(d[j].key)
        /\ \A i \in 1..Len(d) : d[i].val = IntV(Min(Rank(d[i].key), MaxVal))}

ArgLists ==
    {<<>>} \cup
    UNION {{<<d>> \o r : d \in Dicts, r \in [1..n -> LaterDicts]} : n \in 0..(MaxArgs - 1)}

TimeIdle ==
    /\ lt_pc = "idle"
    /\ lt_func = Returned(NoneV)
    /\ t_start = 0
    /\ t_end = 0
    /\ lt_result = NoneV
    /\ lt_log = <<>>
    /\ lt_outcome = Pending

Init ==
    /\ func \in Funcs
    /\ args \in ArgLists
    /\ pc = "start"
    /\ keys = <<>>
    /\ idx = 0
    /\ key = Unbound
    /\ out = NoneV
    /\ out_dict = <<>>
    /\ events = <<>>
    /\ outcome = Pending
    /\ TimeIdle

\* line 112: keys = args[0].keys(); line 114: out_dict = {}
Enter ==
    /\ pc = "start"
    /\ IF Len(args) = 0
       THEN /\ pc' = "done"
            /\ outcome' = [kind |-> "raise", err |-> IndexError, value |-> <<>>]
            /\ UNCHANGED keys
       ELSE /\ pc' = "loop"
            /\ keys' = DictKeys(args[1])
            /\ UNCHANGED outcome
    /\ idx' = 1
    /\ out_dict' = <<>>
    /\ UNCHANGED <<func, args, key, out, events>>
    /\ UNCHANGED tvars

\* line 116: a = [e.get(key) for e in args]
Lookup(k) == [i \in 1..Len(args) |-> DictGet(args[i], k)]

\* the loop body with the error of func caught: the key is skipped
InvokeSwallow ==
    /\ pc = "loop"
    /\ idx <= Len(keys)
    /\ LET k == keys[idx]
           a == Lookup(k)
           r == Apply(func, a)
       IN /\ key' = k
          /\ events' = Append(events, CallEvent(k, a))
          /\ pc' = "store"
          /\ out' = r.val
    /\ UNCHANGED <<func, args, keys, idx, out_dict, outcome>>
    /\ UNCHANGED tvars

\* lines 115-117: next key, a = [...], out = func of a
Invoke ==
    /\ pc = "loop"
    /\ idx <= Len(keys)
    /\ LET k == keys[idx]
           a == Lookup(k)
           r == Apply(func, a)
       IN /\ key' = k
          /\ events' = Append(events, CallEvent(k, a))
          /\ IF r.raised
             THEN /\ pc' = "done"
                  /\ outcome' = [kind |-> "raise", err |-> r.err, value |-> <<>>]
                  /\ UNCHANGED out
             ELSE /\ pc' = "store"
                  /\ out' = r.val
                  /\ UNCHANGED outcome
    /\ UNCHANGED <<func, args, keys, idx, out_dict>>
    /\ UNCHANGED tvars

\* the loop body without the log record
RecordSilent ==
    /\ pc = "store"
    /\ out_dict' = DictSet(out_dict, key, out)
    /\ idx' = idx + 1
    /\ pc' = "loop"
    /\ UNCHANGED <<func, args, keys, key, out, outcome, events>>
    /\ UNCHANGED tvars

\* lines 118-119: out_dict[key] = out; log.info("{}: {}".format(key, out))
Record ==
    /\ pc = "store"
    /\ out_dict' = DictSet(out_dict, key, out)
    /\ events' = Append(events, LogEvent(key, out))
    /\ idx' = idx + 1
    /\ pc' = "loop"
    /\ UNCHANGED <<func, args, keys, key, out, outcome>>
    /\ UNCHANGED tvars

\* the shape test on the first key's result instead of the last
ShapeTestFirst ==
    IF key = Unbound THEN Raised(UnboundError)
    ELSE Returned(IsTuple(out_dict[1].val))

\* line 121: isinstance(out_dict[key], tuple), read after the loop
ShapeTest ==
    IF key = Unbound THEN Raised(UnboundError)
    ELSE Returned(IsTuple(DictGet(out_dict, key)))

\* an empty out_dict returned before the shape test
ResultEmptyFirst ==
    IF out_dict = <<>> THEN [kind |-> "dict", err |-> "", value |-> out_dict]
    ELSE LET t == ShapeTest
         IN IF t.val
            THEN LET l == dict_of_list_to_list_of_dict(out_dict)
                 IN IF l.raised THEN [kind |-> "raise", err |-> l.err, value |-> <<>>]
                    ELSE [kind |-> "tuple", err |-> "", value |-> l.val]
            ELSE [kind |-> "dict", err |-> "", value |-> out_dict]

\* lines 121-125: the value _dict_io returns, or the error it raises
Result ==
    LET t == ShapeTest
    IN IF t.raised THEN [kind |-> "raise", err |-> t.err, value |-> <<>>]
       ELSE IF t.val
       THEN LET l == dict_of_list_to_list_of_dict(out_dict)
            IN IF l.raised THEN [kind |-> "raise", err |-> l.err, value |-> <<>>]
               ELSE [kind |-> "tuple", err |-> "", value |-> l.val]
       ELSE [kind |-> "dict", err |-> "", value |-> out_dict]

Finish ==
    /\ pc = "loop"
    /\ idx > Len(keys)
    /\ outcome' = Result
    /\ pc' = "done"
    /\ UNCHANGED <<func, args, keys, idx, key, out, out_dict, events>>
    /\ UNCHANGED tvars

Next == Enter \/ Invoke \/ Record \/ Finish

Spec == Init /\ [][Next]_vars

(***************************************************************************)
(* _human_readable_time.  Durations are whole milliseconds.                *)
(***************************************************************************)
\* "%02d" % n, for n >= 0
Pad2(n) == IF n < 10 THEN "0" \o ToString(n) ELSE ToString(n)

\* "%.2f" % secs, secs given in milliseconds, 0 <= ms; a tie at the third
\* decimal goes to the even neighbour
Fmt2f(ms) ==
    LET q == ms \div 10
        r == ms % 10
        c == IF r > 5 \/ (r = 5 /\ q % 2 = 1) THEN q + 1 ELSE q
    IN ToString(c \div 100) \o "." \o Pad2(c % 100)

\* divmod(a, b) for b > 0: floored quotient and a remainder in 0..b-1
DivMod(a, b) == <<a \div b, a % b>>

_human_readable_time(elapsed) ==
    LET d1 == DivMod(elapsed, 60 * 1000)      \* mins, secs = divmod(elapsed, 60)
        secs == d1[2]                         \* in milliseconds
        d2 == DivMod(d1[1], 60)               \* hours, mins = divmod(mins, 60)
        hours == d2[1]
        mins == d2[2]
    IN IF hours > 0
       THEN ToString(hours) \o "h" \o Pad2(mins) \o "m" \o Pad2(secs \div 1000) \o "s"
       ELSE IF mins > 0
       THEN ToString(mins) \o "m" \o Pad2(secs \div 1000) \o "s"
       ELSE IF secs >= 1000
       THEN Fmt2f(secs) \o "s"
       ELSE ToString(secs) \o "ms"

(***************************************************************************)
(* One call of with_time, the wrapper log_time returns                     *)
(***************************************************************************)
MaxHours == 2

\* readings of time.time(); the wall clock may be set back between two readings
ClockReadings ==
    {((h * 60 + m) * 60 + s) * 1000 + ms :
        h \in 0..MaxHours, m \in {0, 1, 59}, s \in {0, 1, 5, 59}, ms \in {0, 400, 999}}

\* what the wrapped callable does when it is called
TimedFuncs ==
    {Returned(NoneV), Returned(IntV(1)), Returned(TupleV(<<IntV(1), IntV(2)>>)),
     Raised(ValueError)}

DictIdle ==
    /\ func = "double"
    /\ args = <<>>
    /\ pc = "idle"
    /\ keys = <<>>
    /\ idx = 0
    /\ key = Unbound
    /\ out = NoneV
    /\ out_dict = <<>>
    /\ events = <<>>
    /\ outcome = Pending

InitTime ==
    /\ DictIdle
    /\ lt_pc = "start"
    /\ lt_func \in TimedFuncs
    /\ t_start = 0
    /\ t_end = 0
    /\ lt_result = NoneV
    /\ lt_log = <<>>
    /\ lt_outcome = Pending

\* line 45: t_start = time.time()
ReadStart ==
    /\ lt_pc = "start"
    /\ t_start' \in ClockReadings
    /\ lt_pc' = "call"
    /\ UNCHANGED <<lt_func, t_end, lt_result, lt_log, lt_outcome>>
    /\ UNCHANGED dvars

\* the call wrapped in try/except: an error of func becomes a None result
CallFuncCaught ==
    /\ lt_pc = "call"
    /\ lt_pc' = "returned"
    /\ lt_result' = lt_func.val
    /\ UNCHANGED <<lt_func, t_start, t_end, lt_log, lt_outcome>>
    /\ UNCHANGED dvars

\* line 46: result = func(...)
CallFunc ==
    /\ lt_pc = "call"
    /\ IF lt_func.raised
       THEN /\ lt_pc' = "done"
            /\ lt_outcome' = [kind |-> "raise", err |-> lt_func.err, value |-> <<>>]
            /\ UNCHANGED lt_result
       ELSE /\ lt_pc' = "returned"
            /\ lt_result' = lt_func.val
            /\ UNCHANGED lt_outcome
    /\ UNCHANGED <<lt_func, t_start, t_end, lt_log>>
    /\ UNCHANGED dvars

\* line 47: t_end = time.time()
ReadEnd ==
    /\ lt_pc = "returned"
    /\ t_end' \in ClockReadings
    /\ lt_pc' = "timed"
    /\ UNCHANGED <<lt_func, t_start, lt_result, lt_log, lt_outcome>>
    /\ UNCHANGED dvars

\* lines 48-55: elapsed = t_end - t_start; log.info(...)
LogRecord(elapsed) ==
    [level |-> "info", human |-> _human_readable_time(elapsed), elapsed |-> elapsed]

LogElapsed ==
    /\ lt_pc = "timed"
    /\ lt_log' = Append(lt_log, LogRecord(t_end - t_start))
    /\ lt_pc' = "logged"
    /\ UNCHANGED <<lt_func, t_start, t_end, lt_result, lt_outcome>>
    /\ UNCHANGED dvars

\* line 56: return result
ReturnResult ==
    /\ lt_pc = "logged"
    /\ lt_outcome' = [kind |-> "return", err |-> "", value |-> lt_result]
    /\ lt_pc' = "done"
    /\ UNCHANGED <<lt_func, t_start, t_end, lt_result, lt_log>>
    /\ UNCHANGED dvars

NextTime == ReadStart \/ CallFunc \/ ReadEnd \/ LogElapsed \/ ReturnResult

SpecTime == InitTime /\ [][NextTime]_vars

(***************************************************************************)
(* Properties of dict_io, stated from the inputs of the call               *)
(***************************************************************************)
HasFirst == Len(args) >= 1
FirstKeys == [i \in 1..Len(args[1]) |-> args[1][i].key]
KeySet(d) == {d[i].key : i \in 1..Len(d)}

\* m[k] for a key k of m
Item(m, k) == m[CHOOSE i \in 1..Len(m) : m[i].key = k].val

\* the value each argument holds at k, None where k is absent
ValuesAt(k) ==
    [i \in 1..Len(args) |-> IF k \in KeySet(args[i]) THEN Item(args[i], k) ELSE NoneV]

\* what func does for the i-th key of the first mapping
ResultAt(i) == Apply(func, ValuesAt(FirstKeys[i]))

NeverRaises == \A i \in 1..Len(FirstKeys) : ~ResultAt(i).raised
FailingKeys == {i \in 1..Len(FirstKeys) : ResultAt(i).raised}
FirstFailing == CHOOSE i \in FailingKeys : \A j \in FailingKeys : i <= j

KeyPos(k) == CHOOSE i \in 1..Len(FirstKeys) : FirstKeys[i] = k
Calls == SelectSeq(events, LAMBDA e : e.ev = "call")
Logs == SelectSeq(events, LAMBDA e : e.ev = "log")

\* C1: scalar branch.  When func returns a non-tuple for every key and all
\* the mappings have the same non-empty key set, the call returns a mapping
\* with exactly the keys of the first mapping, in its order, each key mapped
\* to func(m1[key], ..., mk[key]).
C1_ScalarBranch ==
    (/\ pc = "done"
     /\ HasFirst
     /\ Len(args[1]) >= 1
     /\ \A i \in 1..Len(args) : KeySet(args[i]) = KeySet(args[1])
     /\ \A i \in 1..Len(FirstKeys) : ~ResultAt(i).raised /\ ~IsTuple(ResultAt(i).val))
    => /\ outcome.kind = "dict"
       /\ Len(outcome.value) = Len(args[1])
       /\ \A i \in 1..Len(args[1]) :
            /\ outcome.value[i].key = args[1][i].key
            /\ outcome.value[i].val =
                 Apply(func, [j \in 1..Len(args) |-> Item(args[j], args[1][i].key)]).val

\* x * 2 over {"b": 1, "c": 2, "a": 1} gives {"b": 2, "c": 4, "a": 2}
C1_Witness ==
    /\ pc = "done"
    /\ func = "double"
    /\ args = << <<[key |-> "b", val |-> IntV(1)], [key |-> "c", val |-> IntV(2)],
                   [key |-> "a", val |-> IntV(1)]>> >>
    /\ outcome.kind = "dict"
    /\ outcome.value = <<[key |-> "b", val |-> IntV(2)], [key |-> "c", val |-> IntV(4)],
                         [key |-> "a", val |-> IntV(2)]>>

\* func returns a tuple for every key, each as long as the first key's
SameLengthTuples ==
    \A i \in 1..Len(FirstKeys) :
        /\ ~ResultAt(i).raised
        /\ IsTuple(ResultAt(i).val)
        /\ Len(ResultAt(i).val.items) = Len(ResultAt(1).val.items)

\* C2: transpose branch.  When func returns a tuple of the same length n for
\* every key of a non-empty first mapping, the call returns a tuple of exactly
\* n mappings; mapping i has the keys of the first mapping in the same order
\* and maps each key to element i of func's result for that key.
C2_TransposeBranch ==
    (/\ pc = "done"
     /\ HasFirst
     /\ Len(args[1]) >= 1
     /\ SameLengthTuples)
    => /\ outcome.kind = "tuple"
       /\ Len(outcome.value) = Len(ResultAt(1).val.items)
       /\ \A i \in 1..Len(outcome.value) :
            /\ Len(outcome.value[i]) = Len(args[1])
            /\ \A j \in 1..Len(args[1]) :
                 /\ outcome.value[i][j].key = args[1][j].key
                 /\ outcome.value[i][j].val = ResultAt(j).val.items[i]

\* (x, x * 2) over {"a": 1, "b": 2} gives ({"a": 1, "b": 2}, {"a": 2, "b": 4})
C2_Witness ==
    /\ pc = "done"
    /\ func = "pair"
    /\ args = << <<[key |-> "a", val |-> IntV(1)], [key |-> "b", val |-> IntV(2)]>> >>
    /\ outcome.kind = "tuple"
    /\ outcome.value =
         << <<[key |-> "a", val |-> IntV(1)], [key |-> "b", val |-> IntV(2)]>>,
            <<[key |-> "a", val |-> IntV(2)], [key |-> "b", val |-> IntV(4)]>> >>

\* C3: when func raises for a key, the call ends by raising that same error,
\* returns no value, and func is not invoked for any key after the failing one.
C3_ErrorPropagates ==
    (HasFirst /\ FailingKeys # {})
    => /\ \A n \in 1..Len(events) :
            events[n].ev = "call" => KeyPos(events[n].key) <= FirstFailing
       /\ pc = "done" =>
            /\ outcome.kind = "raise"
            /\ outcome.err = ResultAt(FirstFailing).err
            /\ outcome.value = <<>>
            /\ Len(Calls) = FirstFailing

\* func raises ValueError at the second of three keys
C3_Witness ==
    /\ pc = "done"
    /\ func = "fail"
    /\ Len(args) = 2
    /\ Len(args[1]) = 3
    /\ FailingKeys # {}
    /\ FirstFailing = 2
    /\ outcome.err = ValueError

\* the log records of the keys before the i-th, as the call emits them
LogsBefore(i) ==
    [j \in 1..(i - 1) |->
        [ev |-> "log", key |-> FirstKeys[j], a |-> <<>>,
         msg |-> FirstKeys[j] \o ": " \o Str(ResultAt(j).val)]]

\* C6 as stated: no log record has been emitted by a call that ends by raising.
C6_NoLogOnFailure ==
    (pc = "done" /\ outcome.kind = "raise") => Logs = <<>>

\* C6, amended: when func raises at a key, the log records emitted when the
\* error reaches the caller are exactly the "{key}: {result}" records of the
\* keys before the failing key, in key order, and none for the failing key.
C6_LogsOfEarlierKeys ==
    (pc = "done" /\ HasFirst /\ FailingKeys # {})
    => /\ outcome.kind = "raise"
       /\ Logs = LogsBefore(FirstFailing)

\* func raises at the third key, after two records were logged
C6_Witness ==
    /\ pc = "done"
    /\ func = "fail"
    /\ HasFirst
    /\ FailingKeys # {}
    /\ FirstFailing = 3
    /\ Len(Logs) = 2
    /\ outcome.kind = "raise"

\* the invocations and log records of a call in which func never raises
RECURSIVE Expected(_)
Expected(n) ==
    IF n = 0 THEN <<>>
    ELSE Expected(n - 1) \o
         << [ev |-> "call", key |-> FirstKeys[n], a |-> ValuesAt(FirstKeys[n]), msg |-> ""],
            [ev |-> "log", key |-> FirstKeys[n], a |-> <<>>,
             msg |-> FirstKeys[n] \o ": " \o Str(ResultAt(n).val)] >>

IsPrefix(s, t) == Len(s) <= Len(t) /\ s = SubSeq(t, 1, Len(s))

\* C7: when func never raises, func is invoked exactly once per key of the
\* first mapping and for no other key, in the first mapping's key order, and
\* one info record "{key}: {result}" is logged for each key, after func's
\* invocation for that key and before the invocation for the next key.
C7_OncePerKeyInOrder ==
    (HasFirst /\ NeverRaises)
    => /\ IsPrefix(events, Expected(Len(FirstKeys)))
       /\ pc = "done" => events = Expected(Len(FirstKeys))

\* two keys in the order c, a; the second mapping also holds b
C7_Witness ==
    /\ pc = "done"
    /\ func = "pair"
    /\ Len(args) = 1
    /\ FirstKeys = <<"c", "a">>
    /\ Len(events) = 4
    /\ events[2].msg = "c: (" \o ToString(args[1][1].val.n) \o ", "
                          \o ToString(2 * args[1][1].val.n) \o ")"
    /\ events[3].key = "a"

Heterogeneous ==
    /\ HasFirst
    /\ NeverRaises
    /\ \E i \in 1..Len(FirstKeys) : IsTuple(ResultAt(i).val)
    /\ \E i \in 1..Len(FirstKeys) : ~IsTuple(ResultAt(i).val)

LastResult == ResultAt(Len(FirstKeys)).val
ResultsMapping == [i \in 1..Len(FirstKeys) |-> [key |-> FirstKeys[i], val |-> ResultAt(i).val]]
ShortestResult ==
    CHOOSE n \in {Len(ResultAt(i).val.items) : i \in 1..Len(FirstKeys)} :
        \A i \in 1..Len(FirstKeys) : Len(ResultAt(i).val.items) >= n

\* C8 as stated: with mixed per-key results the call never raises; it returns
\* the sequence of mappings exactly when the last key's result is a tuple and
\* the key-to-result mapping exactly when it is not.
C8_LastKeyDecides ==
    (pc = "done" /\ Heterogeneous)
    => /\ outcome.kind # "raise"
       /\ outcome.kind = "tuple" <=> IsTuple(LastResult)
       /\ (outcome.kind = "dict" /\ outcome.value = ResultsMapping) <=> ~IsTuple(LastResult)

\* C8, amended: with mixed per-key results the last key's result selects the
\* branch.  Not a tuple: the call returns the key-to-result mapping with every
\* result unchanged.  A tuple: the call transposes; it raises TypeError when
\* some key's result is not iterable, and otherwise returns as many mappings
\* as the shortest result has elements, each over all the keys.
C8_LastKeySelectsBranch ==
    (pc = "done" /\ Heterogeneous)
    => /\ ~IsTuple(LastResult) =>
            outcome.kind = "dict" /\ outcome.value = ResultsMapping
       /\ (/\ IsTuple(LastResult)
           /\ \E i \in 1..Len(FirstKeys) : ~IsIterable(ResultAt(i).val))
          => outcome.kind = "raise" /\ outcome.err = NotIterableError
       /\ (/\ IsTuple(LastResult)
           /\ \A i \in 1..Len(FirstKeys) : IsIterable(ResultAt(i).val))
          => /\ outcome.kind = "tuple"
             /\ Len(outcome.value) = ShortestResult
             /\ \A i \in 1..Len(outcome.value) :
                  /\ Len(outcome.value[i]) = Len(FirstKeys)
                  /\ \A j \in 1..Len(FirstKeys) :
                       /\ outcome.value[i][j].key = FirstKeys[j]
                       /\ outcome.value[i][j].val = ResultAt(j).val.items[i]

\* an int for the first key and a tuple for the last: zip meets the int
C8_Witness ==
    /\ pc = "done"
    /\ func = "shape"
    /\ Heterogeneous
    /\ ~IsTuple(ResultAt(1).val)
    /\ IsTuple(LastResult)
    /\ outcome.kind = "raise"
    /\ outcome.err = NotIterableError

\* a key of the first mapping that a later mapping lacks
MissingAt(i, k) == i >= 2 /\ i <= Len(args) /\ k \in KeySet(args[1]) /\ k \notin KeySet(args[i])

\* C9: when a later mapping lacks a key of the first mapping, the lookup does
\* not raise; func is invoked for that key with None in that mapping's
\* position and the real values elsewhere, and the key is in the output with
\* what func returned.
C9_MissingKeyTolerated ==
    \A i \in 2..Len(args) : \A k \in Keys :
        MissingAt(i, k)
        => /\ \A n \in 1..Len(events) :
                (events[n].ev = "call" /\ events[n].key = k)
                => /\ events[n].a[i] = NoneV
                   /\ \A j \in 1..Len(args) :
                        k \in KeySet(args[j]) => events[n].a[j] = Item(args[j], k)
           /\ (pc = "done" /\ NeverRaises)
              => /\ \E n \in 1..Len(events) : events[n].ev = "call" /\ events[n].key = k
                 /\ outcome.kind = "dict"
                    => \E n \in 1..Len(outcome.value) :
                          /\ outcome.value[n].key = k
                          /\ outcome.value[n].val = ResultAt(KeyPos(k)).val
                 /\ outcome.kind = "tuple"
                    => \A m \in 1..Len(outcome.value) :
                          \E n \in 1..Len(outcome.value[m]) :
                             /\ outcome.value[m][n].key = k
                             /\ outcome.value[m][n].val = ResultAt(KeyPos(k)).val.items[m]

\* the second mapping lacks "b": func sees one None for "b" and none for "a"
C9_Witness ==
    /\ pc = "done"
    /\ func = "missing"
    /\ Len(args) = 2
    /\ FirstKeys = <<"a", "b">>
    /\ KeySet(args[2]) = {"a", "c"}
    /\ outcome.kind = "dict"
    /\ outcome.value = <<[key |-> "a", val |-> IntV(0)], [key |-> "b", val |-> IntV(1)]>>

\* C10: when the first mapping is empty, func is invoked zero times, nothing
\* is logged and the call ends by raising an error; the call returns a value
\* only when the first mapping has at least one key.
C10_EmptyFirstMapping ==
    /\ (HasFirst /\ Len(args[1]) = 0)
       => /\ events = <<>>
          /\ pc = "done" => outcome.kind = "raise" /\ outcome.err = UnboundError
    /\ outcome.kind \in {"dict", "tuple"} => HasFirst /\ Len(args[1]) >= 1

\* an empty first mapping next to a second mapping with keys
C10_Witness ==
    /\ pc = "done"
    /\ Len(args) = 2
    /\ args[1] = <<>>
    /\ Len(args[2]) = 2
    /\ events = <<>>
    /\ outcome.kind = "raise"

(***************************************************************************)
(* Properties of log_time and _human_readable_time                         *)
(***************************************************************************)
\* C4: a call of with_time ends as the wrapped callable ends: it returns the
\* value the callable returned or raises the error the callable raised.  It
\* emits exactly one info record, after the callable has returned and before
\* with_time returns, when the callable returns, and none when it raises.
C4_SameOutcomeOneRecord ==
    /\ lt_pc \in {"start", "call", "returned", "timed"} => lt_log = <<>>
    /\ lt_log # <<>> =>
          /\ ~lt_func.raised
          /\ lt_result = lt_func.val
          /\ Len(lt_log) = 1
          /\ lt_log[1].level = "info"
    /\ lt_pc = "logged" => Len(lt_log) = 1 /\ lt_outcome = Pending
    /\ lt_pc = "done" =>
          IF lt_func.raised
          THEN /\ lt_outcome.kind = "raise"
               /\ lt_outcome.err = lt_func.err
               /\ lt_log = <<>>
          ELSE /\ lt_outcome.kind = "return"
               /\ lt_outcome.value = lt_func.val
               /\ Len(lt_log) = 1

\* a tuple comes back unchanged, with one record logged
C4_Witness ==
    /\ lt_pc = "done"
    /\ lt_func = Returned(TupleV(<<IntV(1), IntV(2)>>))
    /\ lt_outcome.kind = "return"
    /\ lt_outcome.value = TupleV(<<IntV(1), IntV(2)>>)
    /\ Len(lt_log) = 1

\* the form the elapsed time selects, fields taken from the elapsed time
FormOf(e) ==
    IF e >= 3600 * 1000
    THEN ToString(e \div (3600 * 1000)) \o "h" \o Pad2((e \div (60 * 1000)) % 60)
            \o "m" \o Pad2((e \div 1000) % 60) \o "s"
    ELSE IF e >= 60 * 1000
    THEN ToString(e \div (60 * 1000)) \o "m" \o Pad2((e \div 1000) % 60) \o "s"
    ELSE IF e >= 1000
    THEN Fmt2f(e) \o "s"
    ELSE ToString(e) \o "ms"

\* C5: the rendering of every logged elapsed time has the form its value
\* selects: hours from 3600 s, minutes from 60 s, seconds from 1 s, and
\* milliseconds for every elapsed time below 1 s.
C5_FormByElapsed ==
    \A n \in 1..Len(lt_log) : lt_log[n].human = FormOf(lt_log[n].elapsed)

\* the renderings of 0.4 s, 1 s, 65 s and 3661 s
C5_Examples ==
    /\ _human_readable_time(400) = "400ms"
    /\ _human_readable_time(1000) = "1.00s"
    /\ _human_readable_time(65 * 1000) = "1m05s"
    /\ _human_readable_time(3661 * 1000) = "1h01m01s"

====
